---- MODULE Spec2Model ----
(***************************************************************************)
(* Model of the standalone-routes schematic                                *)
(* (packages/core/schematics/ng-generate/standalone-routes) and of the     *)
(* i18n PlaceholderRegistry.                                               *)
(*                                                                         *)
(* A source file is a list of top-level statements: its import             *)
(* declarations followed by its call expressions.  A call expression has a *)
(* callee and a first argument; an array-literal argument has route        *)
(* elements; an object-literal route has properties.  What the type        *)
(* checker answers for a node (the symbol name of a callee, the class a    *)
(* reference resolves to, the metadata of a class) is part of the input.   *)
(***************************************************************************)
EXTENDS Integers, Sequences, FiniteSets, TLC

VARIABLES
    tree,           \* file -> [imports, calls]: the source files as the Tree holds them
    meta,           \* class -> "standalone" | "notStandalone" | "noMetadata"
    allPaths,       \* the tsconfigs; each is the list of source files that pass the filter
    pathKind,       \* "dir" | "file" | "dotdot": what options.path denotes
    pc,             \* position of the schematic rule
    tsIdx,          \* index of the tsconfig being migrated
    migratedFiles,  \* the rule's counter
    sourceFiles,    \* sourceFiles of the running standaloneRoutesMigration
    fileIdx,        \* index into sourceFiles
    routesArrays,   \* result of findRoutesArrayToMigrate: indices of the calls whose array was recorded
    arrIdx,         \* index into routesArrays
    tracker,        \* ChangeTracker._changes: file -> set of pending changes
    pendingChanges, \* the ChangesByFile returned by toLazyStandaloneRoutes
    outcome,        \* "running" | "success" | the exception that ended the rule
    migrated,       \* history: routes <<file, call, route>> that had a Replace edit applied
    placeHolderNameCounts, \* PlaceholderRegistry._placeHolderNameCounts
    signatureToName,       \* PlaceholderRegistry._signatureToName
    results         \* history: per tsconfig run, "noFiles" | "empty" | "edits"

vars == <<tree, meta, allPaths, pathKind, pc, tsIdx, migratedFiles, sourceFiles, fileIdx,
          routesArrays, arrIdx, tracker, pendingChanges, outcome, migrated,
          results, placeHolderNameCounts, signatureToName>>

migrationVars == <<tree, meta, allPaths, pathKind, pc, tsIdx, migratedFiles, sourceFiles,
                   fileIdx, routesArrays, arrIdx, tracker, pendingChanges, outcome, migrated,
                   results>>

registryVars == <<placeHolderNameCounts, signatureToName>>

-----------------------------------------------------------------------------
(* Bounds *)

MaxRoutes == 2
MaxProps == 2
MaxImports == 2
MaxTsconfigs == 2
MaxRegistryCalls == 3

-----------------------------------------------------------------------------
(* The program under migration *)

Null == "null"

Files == {1, 2}
Classes == {"Foo", "Bar"}

fileName(f) == IF f = 1 THEN "/app/routes.ts" ELSE "/app/foo.ts"

\* componentDeclaration.getSourceFile(): Foo is declared in its own file, Bar in the
\* file that holds the routes.
classFile(c) == IF c = "Foo" THEN 2 ELSE 1

Prop(name, nameKind, init, decl) ==
    [kind |-> "PropertyAssignment", name |-> name, nameKind |-> nameKind,
     init |-> init, decl |-> decl]

PathProp == Prop("path", "Identifier", "StringLiteral", Null)
ComponentProp(c) == Prop("component", "Identifier", "Identifier", c)

ObjectRoute(props) == [kind |-> "ObjectLiteralExpression", props |-> props]

RouteShapes ==
    { r \in
        { [kind |-> "SpreadElement", props |-> <<>>],
          ObjectRoute(<<PathProp>>),
          ObjectRoute(<<PathProp, ComponentProp("Foo")>>),
          ObjectRoute(<<ComponentProp("Bar")>>),
          \* an identifier that resolves to no class declaration
          ObjectRoute(<<ComponentProp(Null)>>),
          \* component: ns.Foo
          ObjectRoute(<<Prop("component", "Identifier", "PropertyAccessExpression", "Foo")>>),
          \* 'component': Foo
          ObjectRoute(<<Prop("component", "StringLiteral", "Identifier", "Foo")>>),
          \* component: Foo, component: Bar
          ObjectRoute(<<ComponentProp("Foo"), ComponentProp("Bar")>>) } :
      Len(r.props) <= MaxProps }

RECURSIVE SeqsUpTo(_, _)
SeqsUpTo(S, n) ==
    IF n = 0 THEN {<<>>}
    ELSE LET shorter == SeqsUpTo(S, n - 1)
         IN  shorter \cup {Append(s, x) : s \in {t \in shorter : Len(t) = n - 1}, x \in S}

RouteArrays == SeqsUpTo(RouteShapes, MaxRoutes)

ArrayArg(routes) == [kind |-> "ArrayLiteralExpression", elements |-> routes]
OtherArg(kind) == [kind |-> kind, elements |-> <<>>]

\* arguments[0] of a call: an array literal, an indirection, or undefined (no argument)
NonArrayArgs == {OtherArg("Identifier"), OtherArg("SpreadElement"),
                 OtherArg("CallExpression"), OtherArg("undefined")}

Callee(kind, symbol, name) == [kind |-> kind, symbol |-> symbol, name |-> name]

CalleeShapes ==
    { Callee("PropertyAccessExpression", "RouterModule", "forRoot"),
      Callee("PropertyAccessExpression", "RouterModule", "forChild"),
      Callee("PropertyAccessExpression", "RouterModule", "withConfig"),
      Callee("PropertyAccessExpression", "StoreModule", "forRoot"),
      Callee("PropertyAccessExpression", "StoreModule", "forChild"),
      Callee("PropertyAccessExpression", Null, "forChild"),
      Callee("PropertyAccessExpression", "Router", "resetConfig"),
      Callee("PropertyAccessExpression", "Other", "resetConfig"),
      Callee("Identifier", "provideRouter", Null),
      Callee("Identifier", "provideStore", Null) }

Call(callee, arg) == [callee |-> callee, arg |-> arg]

SourceFile(imports, calls) == [imports |-> imports, calls |-> calls]

-----------------------------------------------------------------------------
(* Node positions: getStart() and getWidth() of statements, routes, properties *)

\* a property spans its name, the colon, its initializer and the separator
PropWidth == Len(<<"name", ":", "initializer", ",">>)
RouteWidth == 2 + MaxProps * PropWidth
StmtWidth == 6 + MaxRoutes * RouteWidth

Node(f, start, width) == [file |-> f, start |-> start, width |-> width]

\* statement s of file f (1-based; the imports come first, then the calls)
StmtNode(f, s) == Node(f, (s - 1) * StmtWidth, StmtWidth - 1)

CallStmt(t, f, ci) == t[f].imports + ci

RouteNode(t, f, ci, ri) ==
    Node(f, StmtNode(f, CallStmt(t, f, ci)).start + 4 + (ri - 1) * RouteWidth, RouteWidth - 1)

PropNode(t, f, ci, ri, k) ==
    Node(f, RouteNode(t, f, ci, ri).start + 1 + (k - 1) * PropWidth, PropWidth - 1)

-----------------------------------------------------------------------------
(* Route-array locator: findRoutesArrayToMigrate *)

\* (moduleSymbol && moduleSymbol.name === 'RouterModule' && name === 'forRoot') || name === 'forChild'
isRouterModuleCallExpression(node) ==
    IF node.callee.kind = "PropertyAccessExpression"
    THEN \/ /\ node.callee.symbol # Null
            /\ node.callee.symbol = "RouterModule"
            /\ node.callee.name = "forRoot"
         \/ node.callee.name = "forChild"
    ELSE FALSE

isRouterCallExpression(node) ==
    IF node.callee.kind = "PropertyAccessExpression"
    THEN /\ node.callee.symbol # Null
         /\ node.callee.symbol = "Router"
         /\ node.callee.name = "resetConfig"
    ELSE FALSE

isRouterProviderCallExpression(node) ==
    IF node.callee.kind = "Identifier"
    THEN node.callee.symbol # Null /\ node.callee.symbol = "provideRouter"
    ELSE FALSE

isRouteRegistrationCall(node) ==
    \/ isRouterModuleCallExpression(node)
    \/ isRouterProviderCallExpression(node)
    \/ isRouterCallExpression(node)

\* The walk over the call expressions of a file, in source order.  ts.isArrayLiteralExpression
\* reads arg.kind, so a recognised call without arguments ends the walk with a TypeError.
RECURSIVE walk(_, _, _)
walk(calls, i, routesArrays_) ==
    IF i > Len(calls) THEN [error |-> "none", arrays |-> routesArrays_]
    ELSE IF isRouteRegistrationCall(calls[i])
         THEN IF calls[i].arg.kind = "undefined"
              THEN [error |-> "TypeError", arrays |-> routesArrays_]
              ELSE IF calls[i].arg.kind = "ArrayLiteralExpression"
                   THEN walk(calls, i + 1, Append(routesArrays_, i))
                   ELSE walk(calls, i + 1, routesArrays_)
         ELSE walk(calls, i + 1, routesArrays_)

findRoutesArrayToMigrate(sourceFile) == walk(sourceFile.calls, 1, <<>>)

-----------------------------------------------------------------------------
(* Change tracker *)

NoChanges == [f \in Files |-> {}]

Change(node, text) == [start |-> node.start, removeLength |-> node.width, text |-> text]

\* The pending operations of a file are keyed by the byte range of the original node;
\* the last operation scheduled for an exact range wins.
trackChange(tr, f, change) ==
    [tr EXCEPT ![f] = {c \in @ : ~(c.start = change.start /\ c.removeLength = change.removeLength)}
                      \cup {change}]

replaceNode(tr, oldNode, text) == trackChange(tr, oldNode.file, Change(oldNode, text))

removeNode(tr, node) == trackChange(tr, node.file, Change(node, ""))

Before(a, b) ==
    \/ a.start < b.start
    \/ a.start = b.start /\ a.removeLength < b.removeLength
    \/ a.start = b.start /\ a.removeLength = b.removeLength

RECURSIVE SortByStart(_)
SortByStart(S) ==
    IF S = {} THEN <<>>
    ELSE LET first == CHOOSE a \in S : \A b \in S : Before(a, b)
         IN  <<first>> \o SortByStart(S \ {first})

\* file -> its edits in increasing start order; a file without edits is no key of the map
recordChanges(tr) == [f \in Files |-> SortByStart(tr[f])]

-----------------------------------------------------------------------------
(* Standalone predicate and route rewriter *)

isObjectLiteralExpression(node) == node.kind = "ObjectLiteralExpression"

isIdentifier(node) == node.kind = "Identifier"

\* index of the first property named by an identifier `name`, 0 when there is none
findLiteralProperty(literal, name) ==
    LET hits == {k \in 1..Len(literal.props) :
                    /\ literal.props[k].nameKind = "Identifier"
                    /\ literal.props[k].name = name}
    IN  IF hits = {} THEN 0 ELSE CHOOSE k \in hits : \A j \in hits : k <= j

\* the class declaration among the declarations of the symbol of the reference's type
findClassDeclaration(reference) == reference.decl

\* the metadata of a class; isNull marks the null returned for a class without metadata
getDirectiveMetadata(node) ==
    IF node = Null \/ meta[node] = "noMetadata"
    THEN [isNull |-> TRUE, isStandalone |-> FALSE]
    ELSE [isNull |-> FALSE, isStandalone |-> meta[node] = "standalone"]

\* metadata != null && metadata.isStandalone
isStandaloneComponent(node) ==
    LET metadata == getDirectiveMetadata(node)
    IN  ~metadata.isNull /\ metadata.isStandalone

loadComponentText(componentDeclaration) ==
    "loadComponent: () => import('" \o fileName(classFile(componentDeclaration))
        \o "').then(m => m." \o componentDeclaration \o ")"

\* componentDeclaration.getSourceFile().statements.filter(ts.isImportDeclaration)
importDeclarations(t, f) == [s \in 1..t[f].imports |-> StmtNode(f, s)]

\* every top-level statement of a file
statements(t, f) == [s \in 1..(t[f].imports + Len(t[f].calls)) |-> StmtNode(f, s)]

Scheduled(st, t, f, ci, ri, k, componentDeclaration, toRemove) ==
    [tracker |-> replaceNode(st.tracker, PropNode(t, f, ci, ri, k),
                             loadComponentText(componentDeclaration)),
     importsToRemove |-> st.importsToRemove \o toRemove]

\* Variant: the import declarations are collected before the checks on the reference.
migrateRoute_importsHoisted(st, t, f, ci, ri) ==
    LET route == t[f].calls[ci].arg.elements[ri]
        k == findLiteralProperty(route, "component")
    IN  IF isObjectLiteralExpression(route) /\ k # 0 /\ route.props[k].decl # Null
        THEN [st EXCEPT !.importsToRemove =
                    @ \o importDeclarations(t, classFile(route.props[k].decl))]
        ELSE st

\* Variant: the reference is never tested for being an identifier.
migrateRoute_noIdentifierTest(st, t, f, ci, ri) ==
    LET route == t[f].calls[ci].arg.elements[ri]
        k == findLiteralProperty(route, "component")
    IN  IF isObjectLiteralExpression(route) /\ k # 0
        THEN LET componentDeclaration == findClassDeclaration(route.props[k])
             IN  IF isStandaloneComponent(componentDeclaration)
                 THEN Scheduled(st, t, f, ci, ri, k, componentDeclaration,
                                importDeclarations(t, classFile(componentDeclaration)))
                 ELSE st
        ELSE st

\* Variant: the identifier test looks at the initializer and the reference is not tested
\* for being a standalone component.
migrateRoute_noStandaloneTest(st, t, f, ci, ri) ==
    LET route == t[f].calls[ci].arg.elements[ri]
        k == findLiteralProperty(route, "component")
    IN  IF isObjectLiteralExpression(route) /\ k # 0 /\ route.props[k].init = "Identifier"
        THEN LET componentDeclaration == findClassDeclaration(route.props[k])
             IN  IF componentDeclaration # Null
                 THEN Scheduled(st, t, f, ci, ri, k, componentDeclaration,
                                importDeclarations(t, classFile(componentDeclaration)))
                 ELSE st
        ELSE st

\* Variant: the identifier test looks at the initializer of the property.
migrateRoute_initializerTest(st, t, f, ci, ri) ==
    LET route == t[f].calls[ci].arg.elements[ri]
        k == findLiteralProperty(route, "component")
    IN  IF isObjectLiteralExpression(route) /\ k # 0 /\ route.props[k].init = "Identifier"
        THEN LET componentDeclaration == findClassDeclaration(route.props[k])
             IN  IF isStandaloneComponent(componentDeclaration)
                 THEN Scheduled(st, t, f, ci, ri, k, componentDeclaration,
                                importDeclarations(t, classFile(componentDeclaration)))
                 ELSE st
        ELSE st

\* Variant: the identifier test looks at the initializer and every statement of the
\* declaring file is collected for removal (the filter on import declarations is missing).
migrateRoute_allStatements(st, t, f, ci, ri) ==
    LET route == t[f].calls[ci].arg.elements[ri]
        k == findLiteralProperty(route, "component")
    IN  IF isObjectLiteralExpression(route) /\ k # 0 /\ route.props[k].init = "Identifier"
        THEN LET componentDeclaration == findClassDeclaration(route.props[k])
             IN  IF isStandaloneComponent(componentDeclaration)
                 THEN Scheduled(st, t, f, ci, ri, k, componentDeclaration,
                                statements(t, classFile(componentDeclaration)))
                 ELSE st
        ELSE st

\* The body of the loop over the routes, for route ri of the array of call ci of file f.
\* `component` is the property found by findLiteralProperty; ts.isIdentifier tests that node.
migrateRoute(st, t, f, ci, ri) ==
    LET route == t[f].calls[ci].arg.elements[ri]
    IN  IF isObjectLiteralExpression(route)
        THEN LET k == findLiteralProperty(route, "component")
             IN  IF k # 0
                 THEN LET component == route.props[k]
                      IN  IF isIdentifier(component)
                          THEN LET componentDeclaration == findClassDeclaration(component)
                               IN  IF ~isStandaloneComponent(componentDeclaration)
                                   THEN st
                                   ELSE IF componentDeclaration # Null
                                        THEN Scheduled(st, t, f, ci, ri, k, componentDeclaration,
                                                 importDeclarations(t, classFile(componentDeclaration)))
                                        ELSE st
                          ELSE st
                 ELSE st
        ELSE st

RECURSIVE migrateRoutes(_, _, _, _, _)
migrateRoutes(st, t, f, ci, ri) ==
    IF ri > Len(t[f].calls[ci].arg.elements) THEN st
    ELSE migrateRoutes(migrateRoute(st, t, f, ci, ri), t, f, ci, ri + 1)

RECURSIVE removeNodes(_, _, _)
removeNodes(tr, nodes, i) ==
    IF i > Len(nodes) THEN tr
    ELSE removeNodes(removeNode(tr, nodes[i]), nodes, i + 1)

migrateRoutesArray(tr, t, f, ci) ==
    LET st == migrateRoutes([tracker |-> tr, importsToRemove |-> <<>>], t, f, ci, 1)
    IN  removeNodes(st.tracker, st.importsToRemove, 1)

-----------------------------------------------------------------------------
(* The schematic: applying the returned changes to the Tree *)

NoEdits == [f \in Files |-> <<>>]

\* update.remove(start, removeLength) with an empty text deletes a node it covers
Removed(changes, node) ==
    \E i \in 1..Len(changes) :
        /\ changes[i].text = ""
        /\ changes[i].start <= node.start
        /\ node.start + node.width <= changes[i].start + changes[i].removeLength

\* update.remove(start, removeLength) and update.insertRight(start, text) on a property
Replaced(changes, node) ==
    \E i \in 1..Len(changes) :
        /\ changes[i].text # ""
        /\ changes[i].start = node.start
        /\ changes[i].removeLength = node.width

LoadComponentProp == Prop("loadComponent", "Identifier", "ArrowFunction", Null)

RECURSIVE KeepCalls(_, _, _)
KeepCalls(calls, keep, i) ==
    IF i > Len(calls) THEN <<>>
    ELSE (IF i \in keep THEN <<calls[i]>> ELSE <<>>) \o KeepCalls(calls, keep, i + 1)

applyToFile(t, f, changes) ==
    LET src == t[f]
        newProps(ci, ri) ==
            [k \in 1..Len(src.calls[ci].arg.elements[ri].props) |->
                IF Replaced(changes, PropNode(t, f, ci, ri, k))
                THEN LoadComponentProp
                ELSE src.calls[ci].arg.elements[ri].props[k]]
        newRoutes(ci) ==
            [ri \in 1..Len(src.calls[ci].arg.elements) |->
                [src.calls[ci].arg.elements[ri] EXCEPT !.props = newProps(ci, ri)]]
        newCalls ==
            [ci \in 1..Len(src.calls) |-> [src.calls[ci] EXCEPT !.arg.elements = newRoutes(ci)]]
        keep == {ci \in 1..Len(src.calls) : ~Removed(changes, StmtNode(f, CallStmt(t, f, ci)))}
    IN  SourceFile(Cardinality({s \in 1..src.imports : ~Removed(changes, StmtNode(f, s))}),
                   KeepCalls(newCalls, keep, 1))

applyChanges(t, pending) == [f \in Files |-> applyToFile(t, f, pending[f])]

\* the routes whose property is replaced by the changes
migratedBy(t, pending) ==
    UNION {UNION {{<<f, ci, ri>> :
                      ri \in {r \in 1..Len(t[f].calls[ci].arg.elements) :
                                 \E k \in 1..Len(t[f].calls[ci].arg.elements[r].props) :
                                     Replaced(pending[f], PropNode(t, f, ci, r, k))}} :
                  ci \in 1..Len(t[f].calls)} :
           f \in Files}

\* Variant: the number of files that received changes is returned.
migrationResult_changedFiles(files, pending) ==
    Cardinality({f \in Files : pending[f] # <<>>})

\* the value standaloneRoutesMigration returns after applying the changes
migrationResult(files, pending) == Len(files)

-----------------------------------------------------------------------------
(* Actions of the schematic rule *)

\* if (!allPaths.length) throw
RuleStart ==
    /\ pc = "start"
    /\ IF allPaths = <<>>
       THEN pc' = "done" /\ outcome' = "NoTsconfigException"
       ELSE pc' = "tsconfigs" /\ outcome' = outcome
    /\ UNCHANGED <<tree, meta, allPaths, pathKind, tsIdx, migratedFiles, sourceFiles, fileIdx,
                   routesArrays, arrIdx, tracker, pendingChanges, migrated, results>>
    /\ UNCHANGED registryVars

\* standaloneRoutesMigration up to the call of toLazyStandaloneRoutes
RunTsconfig ==
    /\ pc = "tsconfigs"
    /\ tsIdx <= Len(allPaths)
    /\ IF pathKind = "dotdot"
       THEN /\ pc' = "done" /\ outcome' = "OutsideProjectException"
            /\ UNCHANGED <<tsIdx, sourceFiles, fileIdx, tracker, results, migratedFiles>>
       ELSE IF pathKind = "file"
       THEN /\ pc' = "done" /\ outcome' = "NotADirectoryException"
            /\ UNCHANGED <<tsIdx, sourceFiles, fileIdx, tracker, results, migratedFiles>>
       ELSE IF Len(allPaths[tsIdx]) = 0
       THEN /\ pc' = "tsconfigs" /\ tsIdx' = tsIdx + 1
            /\ migratedFiles' = migratedFiles + 0
            /\ results' = Append(results, "noFiles")
            /\ UNCHANGED <<outcome, sourceFiles, fileIdx, tracker>>
       ELSE /\ pc' = "files"
            /\ sourceFiles' = allPaths[tsIdx]
            /\ fileIdx' = 1
            /\ tracker' = NoChanges
            /\ UNCHANGED <<outcome, tsIdx, results, migratedFiles>>
    /\ UNCHANGED <<tree, meta, allPaths, pathKind, routesArrays, arrIdx, pendingChanges, migrated>>
    /\ UNCHANGED registryVars

\* findRoutesArrayToMigrate(sourceFile, typeChecker) for the next source file
FindRoutes ==
    /\ pc = "files"
    /\ fileIdx <= Len(sourceFiles)
    /\ LET found == findRoutesArrayToMigrate(tree[sourceFiles[fileIdx]])
       IN  IF found.error # "none"
           THEN /\ pc' = "done" /\ outcome' = found.error
                /\ UNCHANGED <<routesArrays, arrIdx>>
           ELSE /\ pc' = "arrays" /\ outcome' = outcome
                /\ routesArrays' = found.arrays
                /\ arrIdx' = 1
    /\ UNCHANGED <<tree, meta, allPaths, pathKind, tsIdx, migratedFiles, sourceFiles, fileIdx,
                   tracker, pendingChanges, migrated, results>>
    /\ UNCHANGED registryVars

\* migrateRoutesArray(routeArray, typeChecker, templateTypeChecker, tracker)
MigrateArray ==
    /\ pc = "arrays"
    /\ arrIdx <= Len(routesArrays)
    /\ tracker' = migrateRoutesArray(tracker, tree, sourceFiles[fileIdx], routesArrays[arrIdx])
    /\ arrIdx' = arrIdx + 1
    /\ UNCHANGED <<tree, meta, allPaths, pathKind, pc, tsIdx, migratedFiles, sourceFiles, fileIdx,
                   routesArrays, pendingChanges, outcome, migrated, results>>
    /\ UNCHANGED registryVars

\* the arrays of the file are done: on to the next source file
NextSourceFile ==
    /\ pc = "arrays"
    /\ arrIdx > Len(routesArrays)
    /\ pc' = "files"
    /\ fileIdx' = fileIdx + 1
    /\ UNCHANGED <<tree, meta, allPaths, pathKind, tsIdx, migratedFiles, sourceFiles,
                   routesArrays, arrIdx, tracker, pendingChanges, outcome, migrated, results>>
    /\ UNCHANGED registryVars

\* return tracker.recordChanges()
RecordChanges ==
    /\ pc = "files"
    /\ fileIdx > Len(sourceFiles)
    /\ pendingChanges' = recordChanges(tracker)
    /\ pc' = "returned"
    /\ UNCHANGED <<tree, meta, allPaths, pathKind, tsIdx, migratedFiles, sourceFiles, fileIdx,
                   routesArrays, arrIdx, tracker, outcome, migrated, results>>
    /\ UNCHANGED registryVars

\* the loop over pendingChanges.entries() and the return of standaloneRoutesMigration
ApplyChanges ==
    /\ pc = "returned"
    /\ tree' = applyChanges(tree, pendingChanges)
    /\ migrated' = migrated \cup migratedBy(tree, pendingChanges)
    /\ results' = Append(results, IF pendingChanges = NoEdits THEN "empty" ELSE "edits")
    /\ migratedFiles' = migratedFiles + migrationResult(sourceFiles, pendingChanges)
    /\ tsIdx' = tsIdx + 1
    /\ pc' = "tsconfigs"
    /\ UNCHANGED <<meta, allPaths, pathKind, sourceFiles, fileIdx, routesArrays, arrIdx,
                   tracker, pendingChanges, outcome>>
    /\ UNCHANGED registryVars

\* after the loop over allPaths
Finish ==
    /\ pc = "tsconfigs"
    /\ tsIdx > Len(allPaths)
    /\ pc' = "done"
    /\ outcome' = IF migratedFiles = 0 THEN "NoFilesException" ELSE "success"
    /\ UNCHANGED <<tree, meta, allPaths, pathKind, tsIdx, migratedFiles, sourceFiles, fileIdx,
                   routesArrays, arrIdx, tracker, pendingChanges, migrated, results>>
    /\ UNCHANGED registryVars

-----------------------------------------------------------------------------
(* Initial states *)

EmptyRegistry ==
    /\ placeHolderNameCounts = <<>>
    /\ signatureToName = <<>>

RuleAtStart ==
    /\ pc = "start"
    /\ tsIdx = 1
    /\ migratedFiles = 0
    /\ sourceFiles = <<>>
    /\ fileIdx = 1
    /\ routesArrays = <<>>
    /\ arrIdx = 1
    /\ tracker = NoChanges
    /\ pendingChanges = NoEdits
    /\ outcome = "running"
    /\ migrated = {}
    /\ results = <<>>

Metadata == {"standalone", "notStandalone", "noMetadata"}

RouterModuleForRoot == Callee("PropertyAccessExpression", "RouterModule", "forRoot")
ProvideRouter == Callee("Identifier", "provideRouter", Null)
FooRoute == ObjectRoute(<<ComponentProp("Foo")>>)

\* A routes file with one route array of any shape and a component file with a route
\* array of its own; both files belong to two tsconfigs (build and test).
InitRewriter ==
    \E routes \in RouteArrays, n \in 0..MaxImports, mFoo \in Metadata,
       mBar \in {"standalone", "notStandalone"} :
        /\ tree = [f \in Files |->
                     IF f = 1
                     THEN SourceFile(n, <<Call(RouterModuleForRoot, ArrayArg(routes))>>)
                     ELSE SourceFile(n, <<Call(ProvideRouter, ArrayArg(<<FooRoute>>))>>)]
        /\ meta = [c \in Classes |-> IF c = "Foo" THEN mFoo ELSE mBar]
        /\ allPaths = <<<<1, 2>>, <<1, 2>>>>
        /\ pathKind = "dir"

\* A file with two calls of any callee shape and any first argument.
InitLocator ==
    \E c1 \in CalleeShapes, c2 \in CalleeShapes,
       a1 \in NonArrayArgs \cup {ArrayArg(<<FooRoute>>)},
       a2 \in NonArrayArgs \cup {ArrayArg(<<FooRoute>>)} :
        /\ tree = [f \in Files |->
                     IF f = 1 THEN SourceFile(1, <<Call(c1, a1), Call(c2, a2)>>)
                     ELSE SourceFile(1, <<>>)]
        /\ meta = [c \in Classes |-> IF c = "Foo" THEN "standalone" ELSE "notStandalone"]
        /\ allPaths = <<<<1>>>>
        /\ pathKind = "dir"

\* Any list of tsconfigs, each with none, one or both files under the migration path.
InitRule ==
    \E paths \in SeqsUpTo({<<>>, <<1>>, <<1, 2>>}, MaxTsconfigs),
       kind \in {"dir", "file", "dotdot"}, mFoo \in Metadata :
        /\ tree = [f \in Files |->
                     IF f = 1
                     THEN SourceFile(1, <<Call(ProvideRouter, ArrayArg(<<FooRoute>>))>>)
                     ELSE SourceFile(1, <<>>)]
        /\ meta = [c \in Classes |-> IF c = "Foo" THEN mFoo ELSE "notStandalone"]
        /\ allPaths = paths
        /\ pathKind = kind

Init ==
    /\ RuleAtStart
    /\ EmptyRegistry
    /\ InitRewriter \/ InitLocator \/ InitRule

Next ==
    \/ RuleStart
    \/ RunTsconfig
    \/ FindRoutes
    \/ MigrateArray
    \/ NextSourceFile
    \/ RecordChanges
    \/ ApplyChanges
    \/ Finish

Spec == Init /\ [][Next]_vars

-----------------------------------------------------------------------------
(* PlaceholderRegistry *)

TagToPlaceholderNames ==
    [k \in {"A", "B", "BR", "EM", "H1", "H2", "H3", "H4", "H5", "H6", "HR", "I", "LI", "LINK",
            "OL", "P", "Q", "S", "SMALL", "SUB", "SUP", "TBODY", "TD", "TFOOT", "TH", "THEAD",
            "TR", "TT", "U", "UL"} |->
        CASE k = "A" -> "LINK" [] k = "B" -> "BOLD_TEXT" [] k = "BR" -> "LINE_BREAK"
          [] k = "EM" -> "EMPHASISED_TEXT" [] k = "H1" -> "HEADING_LEVEL1"
          [] k = "H2" -> "HEADING_LEVEL2" [] k = "H3" -> "HEADING_LEVEL3"
          [] k = "H4" -> "HEADING_LEVEL4" [] k = "H5" -> "HEADING_LEVEL5"
          [] k = "H6" -> "HEADING_LEVEL6" [] k = "HR" -> "HORIZONTAL_RULE"
          [] k = "I" -> "ITALIC_TEXT" [] k = "LI" -> "LIST_ITEM" [] k = "LINK" -> "MEDIA_LINK"
          [] k = "OL" -> "ORDERED_LIST" [] k = "P" -> "PARAGRAPH" [] k = "Q" -> "QUOTATION"
          [] k = "S" -> "STRIKETHROUGH_TEXT" [] k = "SMALL" -> "SMALL_TEXT"
          [] k = "SUB" -> "SUBSTRIPT" [] k = "SUP" -> "SUPERSCRIPT" [] k = "TBODY" -> "TABLE_BODY"
          [] k = "TD" -> "TABLE_CELL" [] k = "TFOOT" -> "TABLE_FOOTER"
          [] k = "TH" -> "TABLE_HEADER_CELL" [] k = "THEAD" -> "TABLE_HEADER"
          [] k = "TR" -> "TABLE_ROW" [] k = "TT" -> "MONOSPACED_TEXT"
          [] k = "U" -> "UNDERLINED_TEXT" [] k = "UL" -> "UNORDERED_LIST"]

\* the inputs of the registry
Tags == {"b", "B", "x", "br"}
PlaceholderNames == {"a", "A", "A_1", "START_BOLD_TEXT"}
Contents == {"x", "y"}
AttrNames == <<"class", "id">>
AttrsChoices == {<<>>, [n \in {"id"} |-> "1"], [n \in {"class", "id"} |-> "1"]}

\* String.prototype.toUpperCase on the inputs above and on the strings built from them
toUpperCase(str) ==
    CASE str = "a" -> "A"
      [] str = "b" -> "B"
      [] str = "x" -> "X"
      [] str = "br" -> "BR"
      [] str = "/b" -> "/B"
      [] str = "/x" -> "/X"
      [] str = "/br" -> "/BR"
      [] OTHER -> str

\* Object.getOwnPropertyNames(attrs).sort().map(name => ` ${name}=${attrs[name]}`).join('')
RECURSIVE joinAttrs(_, _)
joinAttrs(attrs, i) ==
    IF i > Len(AttrNames) THEN ""
    ELSE (IF AttrNames[i] \in DOMAIN attrs
          THEN " " \o AttrNames[i] \o "=" \o attrs[AttrNames[i]]
          ELSE "") \o joinAttrs(attrs, i + 1)

hashTag(tag, attrs, isVoid) ==
    LET start == "<" \o toUpperCase(tag)
        strAttrs == joinAttrs(attrs, 1)
        end == IF isVoid THEN "/>" ELSE "></" \o toUpperCase(tag) \o ">"
    IN  start \o strAttrs \o end

hashClosingTag(tag) == hashTag("/" \o toUpperCase(tag), <<>>, FALSE)

\* TAG_TO_PLACEHOLDER_NAMES[upperTag] || `TAG_${upperTag}`
baseNameOf(upperTag) ==
    IF upperTag \in DOMAIN TagToPlaceholderNames
    THEN TagToPlaceholderNames[upperTag]
    ELSE "TAG_" \o upperTag

\* if (this._signatureToName[signature]): the entry exists and is a non-empty string
hasName(map, signature) == signature \in DOMAIN map /\ map[signature] # ""

\* _generateUniqueName: the name and the new _placeHolderNameCounts
generateUniqueName(counts, base) ==
    IF ~(base \in DOMAIN counts /\ counts[base] # 0)
    THEN [name |-> base, counts |-> (base :> 1) @@ counts]
    ELSE [name |-> base \o "_" \o ToString(counts[base]),
          counts |-> (base :> (counts[base] + 1)) @@ counts]

\* what the three methods share: look the signature up, else generate and remember a name
register(signature, base) ==
    IF hasName(signatureToName, signature)
    THEN UNCHANGED <<placeHolderNameCounts, signatureToName>>
    ELSE LET unique == generateUniqueName(placeHolderNameCounts, base)
         IN  /\ placeHolderNameCounts' = unique.counts
             /\ signatureToName' = (signature :> unique.name) @@ signatureToName

RegistryRoom == Cardinality(DOMAIN signatureToName) < MaxRegistryCalls

getStartTagPlaceholderName ==
    \E tag \in Tags, attrs \in AttrsChoices, isVoid \in BOOLEAN :
        LET signature == hashTag(tag, attrs, isVoid)
            upperTag == toUpperCase(tag)
            baseName == baseNameOf(upperTag)
        IN  /\ RegistryRoom
            /\ register(signature, IF isVoid THEN baseName ELSE "START_" \o baseName)
            /\ UNCHANGED migrationVars

getCloseTagPlaceholderName ==
    \E tag \in Tags :
        LET signature == hashClosingTag(tag)
            upperTag == toUpperCase(tag)
            baseName == baseNameOf(upperTag)
        IN  /\ RegistryRoom
            /\ register(signature, "CLOSE_" \o baseName)
            /\ UNCHANGED migrationVars

getPlaceholderName ==
    \E name \in PlaceholderNames, content \in Contents :
        LET upperName == toUpperCase(name)
            signature == "PH: " \o upperName \o "=" \o content
        IN  /\ RegistryRoom
            /\ register(signature, upperName)
            /\ UNCHANGED migrationVars

InitRegistry ==
    /\ EmptyRegistry
    /\ RuleAtStart
    /\ tree = [f \in Files |-> SourceFile(0, <<>>)]
    /\ meta = [c \in Classes |-> "noMetadata"]
    /\ allPaths = <<>>
    /\ pathKind = "dir"

NextRegistry ==
    \/ getStartTagPlaceholderName
    \/ getCloseTagPlaceholderName
    \/ getPlaceholderName

SpecRegistry == InitRegistry /\ [][NextRegistry]_vars

-----------------------------------------------------------------------------
(* Vocabulary of the properties *)

Range(seq) == {seq[i] : i \in 1..Len(seq)}

\* the calls of file f whose array findRoutesArrayToMigrate records
Located(f) == Range(findRoutesArrayToMigrate(tree[f]).arrays)

\* the routes <<file, call, route>> of the located arrays of the source files of the run
LocatedRoutes ==
    UNION {UNION {{<<f, ci, ri>> : ri \in 1..Len(tree[f].calls[ci].arg.elements)} :
                  ci \in Located(f)} :
           f \in Range(sourceFiles)}

RouteAt(r) == tree[r[1]].calls[r[2]].arg.elements[r[3]]

HasComponent(r) ==
    /\ isObjectLiteralExpression(RouteAt(r))
    /\ findLiteralProperty(RouteAt(r), "component") # 0

ComponentOf(r) == RouteAt(r).props[findLiteralProperty(RouteAt(r), "component")]

ComponentNode(r) ==
    PropNode(tree, r[1], r[2], r[3], findLiteralProperty(RouteAt(r), "component"))

\* the component property has an identifier value that resolves to a standalone class
StandaloneRef(r) ==
    /\ HasComponent(r)
    /\ ComponentOf(r).init = "Identifier"
    /\ ComponentOf(r).decl # Null
    /\ meta[ComponentOf(r).decl] = "standalone"

\* the component value is no plain identifier, or resolves to no class declaration
Unresolvable(r) ==
    /\ HasComponent(r)
    /\ ComponentOf(r).init # "Identifier" \/ ComponentOf(r).decl = Null

IsReplaceOf(change, node) ==
    change.start = node.start /\ change.removeLength = node.width /\ change.text # ""

IsRemoveOf(change, node) ==
    change.start = node.start /\ change.removeLength = node.width /\ change.text = ""

Within(change, node) ==
    /\ node.start <= change.start
    /\ change.start + change.removeLength <= node.start + node.width

Overlap(a, b) ==
    /\ a.start < b.start + b.removeLength
    /\ b.start < a.start + a.removeLength

\* the callee shapes that register routes
RegistersRoutes(node) ==
    \/ /\ node.callee.kind = "PropertyAccessExpression"
       /\ node.callee.symbol = "RouterModule"
       /\ node.callee.name \in {"forRoot", "forChild"}
    \/ /\ node.callee.kind = "PropertyAccessExpression"
       /\ node.callee.symbol = "Router"
       /\ node.callee.name = "resetConfig"
    \/ /\ node.callee.kind = "Identifier"
       /\ node.callee.symbol = "provideRouter"

-----------------------------------------------------------------------------
(* Properties *)

\* C1: in the change set toLazyStandaloneRoutes returns, every route of a located array
\* whose component property has an identifier value resolving to a standalone class has
\* exactly one Replace edit on that property, with the loadComponent text.
C1_OneReplacePerStandaloneRoute ==
    pc = "returned" =>
        \A r \in LocatedRoutes :
            StandaloneRef(r) =>
                /\ Cardinality({i \in 1..Len(pendingChanges[r[1]]) :
                                  IsReplaceOf(pendingChanges[r[1]][i], ComponentNode(r))}) = 1
                /\ \E i \in 1..Len(pendingChanges[r[1]]) :
                      pendingChanges[r[1]][i] =
                          Change(ComponentNode(r), loadComponentText(ComponentOf(r).decl))

\* C2: when every component reference of the located arrays resolves to a class that is
\* not standalone or has no metadata, the returned change set is empty.
AllReferencesNotStandalone ==
    \A r \in LocatedRoutes :
        HasComponent(r) =>
            /\ ComponentOf(r).decl # Null
            /\ meta[ComponentOf(r).decl] # "standalone"

C2_NoEditWithoutStandalone ==
    (pc = "returned" /\ AllReferencesNotStandalone) => pendingChanges = NoEdits

C2_Witness ==
    /\ pc = "returned"
    /\ AllReferencesNotStandalone
    /\ \E r \in LocatedRoutes : HasComponent(r) /\ ComponentOf(r).init = "Identifier"
    /\ \E r \in LocatedRoutes : HasComponent(r) /\ meta[ComponentOf(r).decl] = "noMetadata"
    /\ \E f \in Files : tree[f].imports > 0
    /\ pendingChanges = NoEdits

\* C3: every array findRoutesArrayToMigrate returns is the first argument of a call whose
\* callee is RouterModule.forRoot/forChild, Router.resetConfig or provideRouter.
C3_OnlyRouteRegistrations ==
    pc = "arrays" =>
        \A i \in 1..Len(routesArrays) :
            LET node == tree[sourceFiles[fileIdx]].calls[routesArrays[i]]
            IN  RegistersRoutes(node) /\ node.arg.kind = "ArrayLiteralExpression"

\* C4: a route-registration call whose first argument is no array literal (an identifier,
\* a spread, a call, or no argument) contributes no array, and findRoutesArrayToMigrate
\* completes and records the arrays of the calls after it.
C4_NonArrayArgumentSkipped ==
    (pc = "arrays" \/ outcome = "TypeError") =>
        LET calls == tree[sourceFiles[fileIdx]].calls
        IN  \A i \in 1..Len(calls) :
                (RegistersRoutes(calls[i]) /\ calls[i].arg.kind # "ArrayLiteralExpression") =>
                    /\ outcome # "TypeError"
                    /\ pc = "arrays"
                    /\ i \notin Range(routesArrays)
                    /\ \A j \in (i + 1)..Len(calls) :
                          (RegistersRoutes(calls[j]) /\ calls[j].arg.kind = "ArrayLiteralExpression")
                              => j \in Range(routesArrays)

\* C5: once the arrays of a file have been migrated, no edit is pending inside a route whose
\* component value is no plain identifier or resolves to no class declaration, and no error
\* has been raised.
C5_UnresolvableRouteSkipped ==
    (pc = "arrays" /\ arrIdx > Len(routesArrays)) =>
        /\ outcome = "running"
        /\ \A i \in 1..Len(routesArrays) :
              LET f == sourceFiles[fileIdx]
                  ci == routesArrays[i]
              IN  \A ri \in 1..Len(tree[f].calls[ci].arg.elements) :
                      Unresolvable(<<f, ci, ri>>) =>
                          ~\E change \in tracker[f] : Within(change, RouteNode(tree, f, ci, ri))

C5_Witness ==
    /\ pc = "arrays" /\ arrIdx > Len(routesArrays)
    /\ outcome = "running"
    /\ \E i \in 1..Len(routesArrays) :
          LET f == sourceFiles[fileIdx]
              ci == routesArrays[i]
              routes == tree[f].calls[ci].arg.elements
          IN  \E ri \in 1..Len(routes), rj \in 1..Len(routes) :
                  /\ ri < rj
                  /\ Unresolvable(<<f, ci, ri>>)
                  /\ ComponentOf(<<f, ci, ri>>).init # "Identifier"
                  /\ ComponentOf(<<f, ci, ri>>).decl # Null
                  /\ meta[ComponentOf(<<f, ci, ri>>).decl] = "standalone"
                  /\ StandaloneRef(<<f, ci, rj>>)

C8_NamesInjective ==
    \A s1 \in DOMAIN signatureToName, s2 \in DOMAIN signatureToName :
        s1 # s2 => signatureToName[s1] # signatureToName[s2]

\* C9: in the returned change set a Replace edit of a route's component property comes with
\* a Remove edit of every import declaration of the file declaring the class, and an import
\* declaration is removed only if some route referencing a class of that file is replaced.
HasReplace(r) ==
    /\ HasComponent(r)
    /\ \E i \in 1..Len(pendingChanges[r[1]]) :
          IsReplaceOf(pendingChanges[r[1]][i], ComponentNode(r))

C10_EmptyResultIsAnError ==
    (/\ pc = "done"
     /\ results # <<>>
     /\ Len(results) = Len(allPaths)
     /\ \A i \in 1..Len(results) : results[i] = "empty")
        => outcome = "NoFilesException"

\* C10 as amended: the rule ends with that exception exactly when the loop over the
\* tsconfigs completes without any tsconfig having a source file under the migration path;
\* with source files and only empty mappings returned it ends in success.
C10_NoSourceFilesIsAnError ==
    pc = "done" =>
        /\ outcome = "NoFilesException" <=>
              /\ allPaths # <<>>
              /\ pathKind = "dir"
              /\ \A i \in 1..Len(allPaths) : allPaths[i] = <<>>
        /\ (/\ results # <<>>
            /\ Len(results) = Len(allPaths)
            /\ \A i \in 1..Len(results) : results[i] = "empty") => outcome = "success"

C10_Witness ==
    /\ pc = "done"
    /\ Len(allPaths) > 1
    /\ Len(results) = Len(allPaths)
    /\ \A i \in 1..Len(results) : results[i] = "empty"
    /\ outcome = "success"

====
